---- MODULE Spec2Model ----
(***************************************************************************)
(* The k-armed bandit testbed (rl/environment/bandits/k_armed_bandit.py)   *)
(* and the epsilon-greedy agent (rl/algorithms/bandits/epsilon_greedy.py)  *)
(* as a state machine.  Arrays are functions over 0..n-1, as in the source.*)
(* Real numbers are exact rationals <<numerator, denominator>>; rewards    *)
(* and true action values are integers.                                    *)
(***************************************************************************)
EXTENDS Integers, Sequences, FiniteSets, TLC

(***************************************************************************)
(* Bounds of the model.                                                    *)
(***************************************************************************)
\* steps per run offered to the constructor: -1..MaxSteps
MaxSteps == 2
\* direct calls of simple_update / weighted_update between two resets
MaxUpdates == 2

\* constructor arguments offered to KArmedTestbed and EpsilonGreedy
NumRunsVals == {0, 1, 2}
KVals == {-1, 0, 1, 2}
\* bandit_std: 0 makes every reward equal to the true value of the action
BanditStdVals == {0, 1}
\* epsilon and the draws of np.random.random(), in hundredths
EpsilonVals == {-50, 0, 50, 150}
RandomDraws == {0, 50, 99}
InitialisationVals == {<<-1, 1>>, <<0, 1>>, <<5, 1>>}
AlphaVals == {<<0, 1>>, <<1, 2>>, <<1, 1>>, <<2, 1>>}
\* true action values drawn by np.random.normal(k_mean, k_std, k)
QStarVals == {0, 1}
\* noise added by np.random.normal(q_star[action], bandit_std) when bandit_std > 0
NoiseVals == {0, 2}
\* rewards and action indices a caller passes to the update methods
RewardVals == {1, 3}

(***************************************************************************)
(* Exact arithmetic on rationals.                                          *)
(***************************************************************************)
Abs(x) == IF x < 0 THEN -x ELSE x

RECURSIVE GCD(_, _)
GCD(a, b) == IF b = 0 THEN a ELSE GCD(b, a % b)

\* Each operation binds its operands once (The of a one-element set), so that
\* a nested expression is evaluated a single time.
The(S) == CHOOSE x \in S : TRUE

Normalised(p) ==
    LET g == GCD(Abs(p[1]), Abs(p[2]))
        s == IF p[2] < 0 THEN -1 ELSE 1
    IN  <<(s * p[1]) \div g, (s * p[2]) \div g>>

Rat(n, d) == The({Normalised(p) : p \in {<<n, d>>}})

RatOfInt(n) == <<n, 1>>

RatAdd(x, y) ==
    The({Rat(p[1][1] * p[2][2] + p[2][1] * p[1][2], p[1][2] * p[2][2]) : p \in {<<x, y>>}})

RatSub(x, y) ==
    The({Rat(p[1][1] * p[2][2] - p[2][1] * p[1][2], p[1][2] * p[2][2]) : p \in {<<x, y>>}})

RatMul(x, y) ==
    The({Rat(p[1][1] * p[2][1], p[1][2] * p[2][2]) : p \in {<<x, y>>}})

RatLess(x, y) == x[1] * y[2] < y[1] * x[2]
RatLeq(x, y) == x[1] * y[2] <= y[1] * x[2]

(***************************************************************************)
(* numpy array indexing: an index in -n..n-1 is accepted, a negative one   *)
(* counts from the end; any other index raises IndexError.                 *)
(***************************************************************************)
IndexAccepted(a, n) == -n <= a /\ a < n
IndexWrap(a, n) == IF a < 0 THEN a + n ELSE a

Len0(arr) == Cardinality(DOMAIN arr)
Zeros(n) == [i \in 0..(n - 1) |-> 0]

(***************************************************************************)
(* Bandit.__init__: best_action = np.argmax(q_star), the first index that  *)
(* holds the maximum.                                                      *)
(***************************************************************************)
ArgmaxFirst(v) ==
    CHOOSE i \in DOMAIN v :
        /\ \A j \in DOMAIN v : v[j] <= v[i]
        /\ \A j \in DOMAIN v : j < i => v[j] < v[i]

NewBandit(k, bandit_std, q) ==
    [k |-> k, bandit_std |-> bandit_std, q_star |-> q, best_action |-> ArgmaxFirst(q)]

\* Bandit.step: a sample of Normal(q_star[action], bandit_std)
Noises(bandit_std) == IF bandit_std = 0 THEN {0} ELSE NoiseVals
BanditStep(b, a, noise) == b.q_star[IndexWrap(a, b.k)] + noise

(***************************************************************************)
(* rl.utils.general.argmax_ties_random: the indices that hold the maximum, *)
(* one of which is drawn uniformly.                                        *)
(***************************************************************************)
RECURSIVE MaxUpTo(_, _)
MaxUpTo(q, i) ==
    IF i = 0 THEN q[0]
    ELSE LET m == MaxUpTo(q, i - 1)
         IN  IF RatLess(m, q[i]) THEN q[i] ELSE m

argmax_ties_random(q) ==
    LET top == MaxUpTo(q, Len0(q) - 1)
    IN  {i \in DOMAIN q : q[i] = top}

(***************************************************************************)
(* EpsilonGreedy.reset, act, simple_update, weighted_update as functions   *)
(* of the fields they read.                                                *)
(***************************************************************************)
\* reset() without the branch that raises
ResetAccepts_Any(initialisation) == TRUE

ResetAccepts(initialisation) ==
    initialisation[1] = 0 \/ initialisation[1] > 0

\* reset() that always starts from zeros
ResetQ_Zeros(initialisation, n) == [i \in 0..(n - 1) |-> RatOfInt(0)]

ResetQ(initialisation, n) ==
    IF initialisation[1] = 0
    THEN [i \in 0..(n - 1) |-> RatOfInt(0)]
    ELSE [i \in 0..(n - 1) |-> initialisation]

\* act() exploring on u <= epsilon
ActOn_Leq(q, epsilon, n, u) ==
    IF u <= epsilon THEN 0..(n - 1) ELSE argmax_ties_random(q)

\* the results of act() for one draw u of np.random.random()
ActOn(q, epsilon, n, u) ==
    IF u < epsilon THEN 0..(n - 1) ELSE argmax_ties_random(q)

ActResults(q, epsilon, n) ==
    UNION {ActOn(q, epsilon, n, u) : u \in RandomDraws}

\* simple_update incrementing the whole array
SimpleCounts_All(counts, a) == [i \in DOMAIN counts |-> counts[i] + 1]

SimpleCounts(counts, a) ==
    LET i == IndexWrap(a, Len0(counts))
    IN  [counts EXCEPT ![i] = @ + 1]

\* simple_update adding step_size * reward
SimpleQ_NoError(q, counts, a, r) ==
    LET i == IndexWrap(a, Len0(q))
        step_size == Rat(1, counts[i] + 1)
    IN  [q EXCEPT ![i] = RatAdd(@, RatMul(step_size, RatOfInt(r)))]

SimpleQ(q, counts, a, r) ==
    LET i == IndexWrap(a, Len0(q))
        step_size == Rat(1, SimpleCounts(counts, a)[i])
    IN  [q EXCEPT ![i] = RatAdd(@, RatMul(step_size, RatSub(RatOfInt(r), @)))]

WeightedQ(q, alpha, a, r) ==
    LET i == IndexWrap(a, Len0(q))
    IN  [q EXCEPT ![i] = RatAdd(@, RatMul(alpha, RatSub(RatOfInt(r), @)))]

(***************************************************************************)
(* train(): the dicts keyed by bandit (insertion ordered) and the          *)
(* DataFrames built from them.                                             *)
(***************************************************************************)
DictHas(d, key) == \E i \in 1..Len(d) : d[i].key = key

\* a dict whose keys all collide
DictSet_Collide(d, key, val) == <<[key |-> key, val |-> val]>>

DictSet(d, key, val) ==
    IF DictHas(d, key)
    THEN [i \in 1..Len(d) |-> IF d[i].key = key THEN [key |-> key, val |-> val] ELSE d[i]]
    ELSE Append(d, [key |-> key, val |-> val])

DataFrame(d) ==
    [columns |-> [i \in 1..Len(d) |-> d[i].key],
     nrows   |-> IF Len(d) = 0 THEN 0 ELSE Len0(d[1].val),
     col     |-> [i \in 1..Len(d) |-> d[i].val]]

NoFrames == [rewards |-> DataFrame(<<>>), optimal |-> DataFrame(<<>>)]

(***************************************************************************)
(* State.                                                                  *)
(***************************************************************************)
VARIABLES
    cfg,                    \* the constructor arguments, kept as the agent's fields
    envStatus,              \* KArmedTestbed(...): "none", "ok" or the error raised
    bandits,                \* env.bandits
    agentStatus,            \* EpsilonGreedy(...): "none", "ok" or the error raised
    q_values,               \* self.q_values
    action_counts,          \* self.action_counts
    pc,                     \* position inside train(), "idle" outside
    bandit_idx,             \* position of the loop over env.bandits
    step,                   \* position of the loop over range(max_steps)
    action,                 \* train()'s local action
    reward,                 \* train()'s local reward
    rewards,                \* train()'s local rewards array
    optimal_action,         \* train()'s local optimal_action list
    rewards_testbed,        \* train()'s dict of rewards arrays
    optimal_action_testbed, \* train()'s dict of optimal_action lists
    ret,                    \* the most recent call and what it returned or raised
    frames,                 \* the DataFrames a completed train() returned
    hist,                   \* per action: updates applied since the last reset
    chosen,                 \* per action: times act() chose it in the current run
    log,                    \* per run of the current train(): <<action, reward>> per step
    resets,                 \* reset() calls made by the current train()
    quota                   \* direct update calls the caller makes between two resets

vars == <<cfg, envStatus, bandits, agentStatus, q_values, action_counts, pc,
          bandit_idx, step, action, reward, rewards, optimal_action,
          rewards_testbed, optimal_action_testbed, ret, frames,
          hist, chosen, log, resets, quota>>

agentVars == <<q_values, action_counts>>
trainVars == <<bandit_idx, step, action, reward, rewards, optimal_action,
               rewards_testbed, optimal_action_testbed>>
ghostVars == <<hist, chosen, log, resets>>

(***************************************************************************)
(* Constructor arguments.  A scenario is a configuration and the number of *)
(* update calls the caller makes directly between two resets.  AgentConfigs*)
(* vary the agent on a one-run, one-step testbed; SizeConfigs vary the     *)
(* shape of the testbed; InvalidConfigs are BaseConfig with one argument   *)
(* the documentation calls invalid.                                        *)
(***************************************************************************)
AllConfigs ==
    [num_runs : NumRunsVals, k : KVals, bandit_std : BanditStdVals,
     max_steps : (-1)..MaxSteps, epsilon : EpsilonVals,
     initialisation : InitialisationVals,
     use_weighted_average : BOOLEAN, alpha : AlphaVals]

ValidEpsilon(c) == 0 <= c.epsilon /\ c.epsilon <= 100
ValidAlpha(c) == RatLess(RatOfInt(0), c.alpha) /\ RatLeq(c.alpha, RatOfInt(1))
ValidSizes(c) == c.num_runs > 0 /\ c.k > 0 /\ c.max_steps > 0
ValidInitialisation(c) == ~RatLess(c.initialisation, RatOfInt(0))
ValidConfig(c) ==
    ValidEpsilon(c) /\ ValidAlpha(c) /\ ValidSizes(c) /\ ValidInitialisation(c)

BaseConfig ==
    [num_runs |-> 1, k |-> 2, bandit_std |-> 1, max_steps |-> 1, epsilon |-> 50,
     initialisation |-> RatOfInt(0), use_weighted_average |-> TRUE,
     alpha |-> <<1, 2>>]

Differs(c, d) == {f \in DOMAIN c : c[f] # d[f]}

AgentConfigs ==
    {c \in AllConfigs :
        /\ ValidConfig(c)
        /\ c.num_runs = 1 /\ c.max_steps = 1 /\ c.bandit_std = 1
        /\ (~c.use_weighted_average => c.alpha = <<1, 2>>)}

SizeConfigs ==
    {c \in AllConfigs :
        /\ ValidConfig(c)
        /\ c.k = 2 /\ c.epsilon = 50 /\ c.initialisation = RatOfInt(5)
        /\ c.alpha = <<1, 2>>
        /\ (c.bandit_std = 1 => c.num_runs = 1)}

InvalidConfigs ==
    {c \in AllConfigs :
        ~ValidConfig(c) /\ Cardinality(Differs(c, BaseConfig)) = 1}

Scenarios ==
    (AgentConfigs \X {MaxUpdates}) \cup ((SizeConfigs \cup InvalidConfigs) \X {1})

NoHist(n) == [i \in 0..(n - 1) |-> [n |-> 0, sum |-> 0, w |-> 0]]
NoCall == [op |-> "none", arg |-> 0, outcome |-> "none", value |-> 0]
Call(op, arg, outcome, value) ==
    [op |-> op, arg |-> arg, outcome |-> outcome, value |-> value]

Unbuilt ==
    /\ envStatus = "none"
    /\ bandits = <<>>
    /\ agentStatus = "none"
    /\ q_values = <<>>
    /\ action_counts = <<>>
    /\ pc = "idle"
    /\ bandit_idx = 0
    /\ step = 0
    /\ action = 0
    /\ reward = 0
    /\ rewards = <<>>
    /\ optimal_action = <<>>
    /\ rewards_testbed = <<>>
    /\ optimal_action_testbed = <<>>
    /\ ret = NoCall
    /\ frames = NoFrames
    /\ hist = <<>>
    /\ chosen = <<>>
    /\ log = <<>>
    /\ resets = 0

Init ==
    /\ \E sc \in Scenarios : cfg = sc[1] /\ quota = sc[2]
    /\ Unbuilt

(***************************************************************************)
(* KArmedTestbed.__init__: num_runs bandits, each drawing k true values.   *)
(* A negative k makes np.random.normal raise, k = 0 makes np.argmax raise; *)
(* with num_runs <= 0 no bandit is built and nothing is raised.            *)
(***************************************************************************)
ConstructTestbed ==
    /\ envStatus = "none"
    /\ IF cfg.num_runs > 0 /\ cfg.k <= 0
       THEN /\ envStatus' = "ValueError"
            /\ bandits' = bandits
       ELSE /\ envStatus' = "ok"
            /\ \E qs \in [0..(cfg.num_runs - 1) -> [0..(cfg.k - 1) -> QStarVals]] :
                   bandits' = [i \in 0..(cfg.num_runs - 1) |-> NewBandit(cfg.k, cfg.bandit_std, qs[i])]
    /\ UNCHANGED <<cfg, quota, agentStatus, agentVars, pc, trainVars, ret, frames, ghostVars>>

(***************************************************************************)
(* EpsilonGreedy.__init__: env.bandits[0] raises IndexError on an empty    *)
(* testbed; the closing reset() raises ValueError on a negative            *)
(* initialisation.                                                         *)
(***************************************************************************)
ConstructAgent ==
    /\ envStatus = "ok"
    /\ agentStatus = "none"
    /\ ret' = NoCall
    /\ IF Len0(bandits) = 0
       THEN /\ agentStatus' = "IndexError"
            /\ UNCHANGED <<agentVars, hist>>
       ELSE LET num_actions == bandits[0].k
            IN  IF ResetAccepts(cfg.initialisation)
                THEN /\ agentStatus' = "ok"
                     /\ q_values' = ResetQ(cfg.initialisation, num_actions)
                     /\ action_counts' = Zeros(num_actions)
                     /\ hist' = NoHist(num_actions)
                ELSE /\ agentStatus' = "ValueError"
                     /\ UNCHANGED <<agentVars, hist>>
    /\ UNCHANGED <<cfg, quota, envStatus, bandits, pc, trainVars, frames, chosen, log, resets>>

num_actions == Len0(q_values)
Idle == agentStatus = "ok" /\ pc = "idle"

\* action indices a caller passes: the valid ones and those around them
ArgVals == (-(num_actions + 1))..num_actions

HistSimple(h, a, r) ==
    LET i == IndexWrap(a, Len0(h))
    IN  [h EXCEPT ![i] = [n |-> @.n + 1, sum |-> @.sum + r, w |-> @.w]]

HistWeighted(h, a) ==
    LET i == IndexWrap(a, Len0(h))
    IN  [h EXCEPT ![i] = [n |-> @.n, sum |-> @.sum, w |-> @.w + 1]]

RECURSIVE TotalUpdates(_, _)
TotalUpdates(h, n) ==
    IF n = 0 THEN 0 ELSE h[n - 1].n + h[n - 1].w + TotalUpdates(h, n - 1)

UpdatesLeft == TotalUpdates(hist, Len0(hist)) < quota

(***************************************************************************)
(* The methods called directly on a constructed testbed or agent.          *)
(***************************************************************************)
CallReset ==
    /\ Idle
    /\ q_values' = ResetQ(cfg.initialisation, num_actions)
    /\ action_counts' = Zeros(num_actions)
    /\ hist' = NoHist(num_actions)
    /\ ret' = Call("reset", 0, "ok", 0)
    /\ frames' = NoFrames
    /\ log' = <<>>
    /\ UNCHANGED <<cfg, quota, envStatus, bandits, agentStatus, pc, trainVars, chosen, resets>>

CallAct ==
    /\ Idle
    /\ \E a \in ActResults(q_values, cfg.epsilon, num_actions) :
           ret' = Call("act", 0, "ok", a)
    /\ frames' = NoFrames
    /\ log' = <<>>
    /\ UNCHANGED <<cfg, quota, envStatus, bandits, agentStatus, agentVars, pc, trainVars,
                   hist, chosen, resets>>

\* Bandit.step called on the testbed by itself: it reads q_star only, so it
\* is explored before an agent is built on the testbed
CallStep ==
    /\ envStatus = "ok"
    /\ agentStatus = "none"
    /\ \E b \in DOMAIN bandits, a \in (-(cfg.k + 1))..cfg.k,
          noise \in Noises(cfg.bandit_std) :
           IF IndexAccepted(a, bandits[b].k)
           THEN ret' = Call("step", a, "ok", BanditStep(bandits[b], a, noise))
           ELSE ret' = Call("step", a, "IndexError", 0)
    /\ frames' = NoFrames
    /\ log' = <<>>
    /\ UNCHANGED <<cfg, quota, envStatus, bandits, agentStatus, agentVars, pc, trainVars,
                   hist, chosen, resets>>

CallSimpleUpdate ==
    /\ Idle
    /\ UpdatesLeft
    /\ \E a \in ArgVals, r \in RewardVals :
           IF IndexAccepted(a, num_actions)
           THEN /\ action_counts' = SimpleCounts(action_counts, a)
                /\ q_values' = SimpleQ(q_values, action_counts, a, r)
                /\ hist' = HistSimple(hist, a, r)
                /\ ret' = Call("simple_update", a, "ok", 0)
           ELSE /\ UNCHANGED <<agentVars, hist>>
                /\ ret' = Call("simple_update", a, "IndexError", 0)
    /\ frames' = NoFrames
    /\ log' = <<>>
    /\ UNCHANGED <<cfg, quota, envStatus, bandits, agentStatus, pc, trainVars, chosen, resets>>

CallWeightedUpdate ==
    /\ Idle
    /\ UpdatesLeft
    /\ \E a \in ArgVals, r \in RewardVals :
           IF IndexAccepted(a, num_actions)
           THEN /\ q_values' = WeightedQ(q_values, cfg.alpha, a, r)
                /\ hist' = HistWeighted(hist, a)
                /\ ret' = Call("weighted_update", a, "ok", 0)
                /\ UNCHANGED action_counts
           ELSE /\ UNCHANGED <<agentVars, hist>>
                /\ ret' = Call("weighted_update", a, "IndexError", 0)
    /\ frames' = NoFrames
    /\ log' = <<>>
    /\ UNCHANGED <<cfg, quota, envStatus, bandits, agentStatus, pc, trainVars, chosen, resets>>

(***************************************************************************)
(* train(), one action per statement group.                                *)
(***************************************************************************)
TrainBegin ==
    /\ Idle
    /\ pc' = "for_bandit"
    /\ bandit_idx' = 0
    /\ rewards_testbed' = <<>>
    /\ optimal_action_testbed' = <<>>
    /\ ret' = Call("train", 0, "running", 0)
    /\ frames' = NoFrames
    /\ log' = <<>>
    /\ resets' = 0
    /\ UNCHANGED <<cfg, quota, envStatus, bandits, agentStatus, agentVars, step, action,
                   reward, rewards, optimal_action, hist, chosen>>

\* the loop head without the reset() call
TrainRunStart_NoReset ==
    /\ pc = "for_bandit"
    /\ bandit_idx < Len0(bandits)
    /\ cfg.max_steps >= 0
    /\ chosen' = Zeros(num_actions)
    /\ pc' = "for_step"
    /\ rewards' = Zeros(cfg.max_steps)
    /\ optimal_action' = [i \in 0..(cfg.max_steps - 1) |-> FALSE]
    /\ step' = 0
    /\ log' = Append(log, <<>>)
    /\ UNCHANGED <<cfg, quota, envStatus, bandits, agentStatus, agentVars, action,
                   reward, frames, bandit_idx, rewards_testbed,
                   optimal_action_testbed, ret, hist, resets>>

\* for k_armed_bandit in self.env.bandits: reset(); rewards = ...; optimal_action = ...
TrainRunStart ==
    /\ pc = "for_bandit"
    /\ bandit_idx < Len0(bandits)
    /\ q_values' = ResetQ(cfg.initialisation, num_actions)
    /\ action_counts' = Zeros(num_actions)
    /\ hist' = NoHist(num_actions)
    /\ chosen' = Zeros(num_actions)
    /\ resets' = resets + 1
    /\ IF cfg.max_steps < 0
       THEN /\ pc' = "idle"
            /\ ret' = Call("train", 0, "ValueError", 0)
            /\ bandit_idx' = 0
            /\ rewards_testbed' = <<>>
            /\ optimal_action_testbed' = <<>>
            /\ UNCHANGED <<step, rewards, optimal_action, log>>
       ELSE /\ pc' = "for_step"
            /\ rewards' = Zeros(cfg.max_steps)
            /\ optimal_action' = [i \in 0..(cfg.max_steps - 1) |-> FALSE]
            /\ step' = 0
            /\ log' = Append(log, <<>>)
            /\ UNCHANGED <<bandit_idx, rewards_testbed, optimal_action_testbed, ret>>
    /\ UNCHANGED <<cfg, quota, envStatus, bandits, agentStatus, action, reward, frames>>

\* action = self.act()
TrainAct ==
    /\ pc = "for_step"
    /\ step < cfg.max_steps
    /\ \E a \in ActResults(q_values, cfg.epsilon, num_actions) :
           /\ action' = a
           /\ chosen' = [chosen EXCEPT ![a] = @ + 1]
    /\ pc' = "env"
    /\ UNCHANGED <<cfg, quota, envStatus, bandits, agentStatus, agentVars, bandit_idx, step,
                   reward, rewards, optimal_action, rewards_testbed,
                   optimal_action_testbed, ret, frames, hist, log, resets>>

\* reward = k_armed_bandit.step(action)
TrainEnvStep ==
    /\ pc = "env"
    /\ \E noise \in Noises(bandits[bandit_idx].bandit_std) :
           reward' = BanditStep(bandits[bandit_idx], action, noise)
    /\ pc' = "update"
    /\ UNCHANGED <<cfg, quota, envStatus, bandits, agentStatus, agentVars, bandit_idx, step,
                   action, rewards, optimal_action, rewards_testbed,
                   optimal_action_testbed, ret, frames, ghostVars>>

\* if self.use_weighted_average: weighted_update(...) else: simple_update(...)
TrainUpdate ==
    /\ pc = "update"
    /\ IF cfg.use_weighted_average
       THEN /\ q_values' = WeightedQ(q_values, cfg.alpha, action, reward)
            /\ hist' = HistWeighted(hist, action)
            /\ UNCHANGED action_counts
       ELSE /\ action_counts' = SimpleCounts(action_counts, action)
            /\ q_values' = SimpleQ(q_values, action_counts, action, reward)
            /\ hist' = HistSimple(hist, action, reward)
    /\ pc' = "record"
    /\ UNCHANGED <<cfg, quota, envStatus, bandits, agentStatus, trainVars, ret, frames,
                   chosen, log, resets>>

\* the record step comparing with the first bandit's best action
TrainRecord_FirstBandit ==
    /\ pc = "record"
    /\ rewards' = [rewards EXCEPT ![step] = reward]
    /\ optimal_action' =
           IF action = bandits[0].best_action
           THEN [optimal_action EXCEPT ![step] = TRUE]
           ELSE optimal_action
    /\ step' = step + 1
    /\ log' = [log EXCEPT ![Len(log)] = Append(@, <<action, reward>>)]
    /\ pc' = "for_step"
    /\ UNCHANGED <<cfg, quota, envStatus, bandits, agentStatus, agentVars, bandit_idx,
                   action, reward, rewards_testbed, optimal_action_testbed, ret,
                   frames, hist, chosen, resets>>

\* rewards[step] = reward; optimal_action[step] = True on the best action
TrainRecord ==
    /\ pc = "record"
    /\ rewards' = [rewards EXCEPT ![step] = reward]
    /\ optimal_action' =
           IF action = bandits[bandit_idx].best_action
           THEN [optimal_action EXCEPT ![step] = TRUE]
           ELSE optimal_action
    /\ step' = step + 1
    /\ log' = [log EXCEPT ![Len(log)] = Append(@, <<action, reward>>)]
    /\ pc' = "for_step"
    /\ UNCHANGED <<cfg, quota, envStatus, bandits, agentStatus, agentVars, bandit_idx,
                   action, reward, rewards_testbed, optimal_action_testbed, ret,
                   frames, hist, chosen, resets>>

\* rewards_testbed[k_armed_bandit] = rewards; optimal_action_testbed[...] = ...
TrainRunEnd ==
    /\ pc = "for_step"
    /\ step >= cfg.max_steps
    /\ rewards_testbed' = DictSet(rewards_testbed, bandit_idx, rewards)
    /\ optimal_action_testbed' =
           DictSet(optimal_action_testbed, bandit_idx, optimal_action)
    /\ bandit_idx' = bandit_idx + 1
    /\ pc' = "for_bandit"
    /\ UNCHANGED <<cfg, quota, envStatus, bandits, agentStatus, agentVars, step, action,
                   reward, rewards, optimal_action, ret, frames, ghostVars>>

\* return pd.DataFrame(rewards_testbed), pd.DataFrame(optimal_action_testbed)
TrainReturn ==
    /\ pc = "for_bandit"
    /\ bandit_idx >= Len0(bandits)
    /\ frames' = [rewards |-> DataFrame(rewards_testbed),
                  optimal |-> DataFrame(optimal_action_testbed)]
    /\ ret' = Call("train", 0, "ok", 0)
    /\ pc' = "idle"
    /\ bandit_idx' = 0
    /\ step' = 0
    /\ action' = 0
    /\ reward' = 0
    /\ rewards' = <<>>
    /\ optimal_action' = <<>>
    /\ rewards_testbed' = <<>>
    /\ optimal_action_testbed' = <<>>
    /\ UNCHANGED <<cfg, quota, envStatus, bandits, agentStatus, agentVars, ghostVars>>

Next ==
    \/ ConstructTestbed
    \/ ConstructAgent
    \/ CallReset
    \/ CallAct
    \/ CallStep
    \/ CallSimpleUpdate
    \/ CallWeightedUpdate
    \/ TrainBegin
    \/ TrainRunStart
    \/ TrainAct
    \/ TrainEnvStep
    \/ TrainUpdate
    \/ TrainRecord
    \/ TrainRunEnd
    \/ TrainReturn

Spec == Init /\ [][Next]_vars

\* train() is straight-line code: once called it runs each statement in turn
TrainProgress ==
    \/ TrainRunStart
    \/ TrainAct
    \/ TrainEnvStep
    \/ TrainUpdate
    \/ TrainRecord
    \/ TrainRunEnd
    \/ TrainReturn

FairSpec == Spec /\ WF_vars(TrainProgress)

(***************************************************************************)
(* Properties.                                                             *)
(***************************************************************************)
Actions == 0..(cfg.k - 1)
InitialValue == cfg.initialisation
IsMaximal(q, i) == \A j \in DOMAIN q : RatLeq(q[j], q[i])
Training == pc # "idle"

\* C1 (as claimed): step, simple_update and weighted_update reject every
\* action index outside 0..num_actions-1, negative ones included.
C1_OutOfRangeRejected ==
    (/\ ret.op \in {"step", "simple_update", "weighted_update"}
     /\ ret.arg \notin Actions)
        => ret.outcome = "IndexError"

\* C2 (as claimed): in every state of a constructed agent both arrays have
\* num_actions entries and an action with count 0 still has the initial value.
C2_ZeroCountIsInitial ==
    agentStatus = "ok" =>
        /\ DOMAIN q_values = Actions
        /\ DOMAIN action_counts = Actions
        /\ \A a \in Actions : action_counts[a] = 0 => q_values[a] = InitialValue

\* C2 (amended): both arrays have num_actions entries, and an action with
\* count 0 that no weighted_update touched since the last reset still has
\* the initial value.
C2_ZeroCountUntouchedIsInitial ==
    agentStatus = "ok" =>
        /\ DOMAIN q_values = Actions
        /\ DOMAIN action_counts = Actions
        /\ \A a \in Actions :
               (action_counts[a] = 0 /\ hist[a].w = 0) => q_values[a] = InitialValue

C2_Witness ==
    /\ agentStatus = "ok"
    /\ InitialValue = RatOfInt(5)
    /\ \E a, b \in Actions :
           /\ action_counts[a] = 0 /\ hist[a].w = 0
           /\ hist[b].n > 0 /\ q_values[b] # InitialValue

\* C3 (as claimed): between the steps of a run, under either update rule,
\* action_counts[a] is the number of times act() chose a in this run.
C3_CountsAreChoices ==
    pc = "for_step" => \A a \in Actions : action_counts[a] = chosen[a]

RECURSIVE SumTo(_, _)
SumTo(f, n) == IF n = 0 THEN 0 ELSE f[n - 1] + SumTo(f, n - 1)

\* C3 (amended): between the steps of a run, under the sample-average rule
\* action_counts[a] is the number of times act() chose a in this run and the
\* counts sum to the steps taken; under the constant-step-size rule every
\* count stays 0.
C3_CountsAreChoicesWhenSimple ==
    pc = "for_step" =>
        IF cfg.use_weighted_average
        THEN \A a \in Actions : action_counts[a] = 0
        ELSE /\ \A a \in Actions : action_counts[a] = chosen[a]
             /\ SumTo(action_counts, cfg.k) = step

C3_Witness ==
    /\ pc = "for_step"
    /\ ~cfg.use_weighted_average
    /\ step = 2
    /\ \E a \in Actions : action_counts[a] = 1 /\ chosen[a] = 1

\* C4 (as claimed): a testbed or agent is never constructed from an invalid
\* configuration (epsilon outside [0,1], alpha outside (0,1], non-positive
\* num_actions, max_steps or num_runs).
C4_InvalidConfigRejected ==
    /\ envStatus = "ok" => (cfg.num_runs > 0 /\ cfg.k > 0)
    /\ agentStatus = "ok" => ValidConfig(cfg)

\* C5: construction raises on a negative initialisation and accepts zero and
\* every positive one; no agent with a negative initialisation ever acts,
\* updates or trains.
C5_NegativeInitialisationRejected ==
    /\ agentStatus = "ok" => ~RatLess(InitialValue, RatOfInt(0))
    /\ (agentStatus # "none" /\ Len0(bandits) > 0) =>
           IF RatLess(InitialValue, RatOfInt(0))
           THEN agentStatus = "ValueError"
           ELSE agentStatus = "ok"
    /\ RatLess(InitialValue, RatOfInt(0)) =>
           /\ ~Training
           /\ ret.op \in {"none", "step"}
           /\ q_values = <<>>

C5_Witness ==
    /\ agentStatus = "ValueError"
    /\ RatLess(InitialValue, RatOfInt(0))

\* C6: an action that received n >= 1 simple_update calls (and no
\* weighted_update) since the last reset has the mean of their rewards as
\* estimate and n as count, whatever the initial value.
C6_SampleAverage ==
    agentStatus = "ok" =>
        \A a \in Actions :
            (hist[a].n >= 1 /\ hist[a].w = 0) =>
                /\ q_values[a] = Rat(hist[a].sum, hist[a].n)
                /\ action_counts[a] = hist[a].n

C6_Witness ==
    /\ agentStatus = "ok"
    /\ InitialValue = RatOfInt(5)
    /\ ret.op = "simple_update"
    /\ hist[0].n = 2 /\ hist[0].sum = 4 /\ hist[0].w = 0
    /\ q_values[0] = RatOfInt(2)
    /\ action_counts[0] = 2

\* C7: act() returns an index in 0..num_actions-1; with epsilon = 0 its
\* possible results are exactly the indices holding the maximal estimate,
\* so the unique maximum when there is one and every tied index otherwise.
C7_ActInRangeAndGreedy ==
    agentStatus = "ok" =>
        /\ ActResults(q_values, cfg.epsilon, cfg.k) \subseteq Actions
        /\ ActResults(q_values, cfg.epsilon, cfg.k) # {}
        /\ ret.op = "act" => ret.value \in Actions
        /\ pc \in {"env", "update", "record"} => action \in Actions
        /\ cfg.epsilon = 0 =>
               /\ ActResults(q_values, cfg.epsilon, cfg.k)
                      = {i \in Actions : IsMaximal(q_values, i)}
               /\ ret.op = "act" => IsMaximal(q_values, ret.value)
               /\ pc = "env" => IsMaximal(q_values, action)

C7_Witness ==
    /\ agentStatus = "ok"
    /\ cfg.epsilon = 0
    /\ cfg.k = 2
    /\ ret.op = "act"
    /\ ret.value = 1
    /\ q_values[0] = q_values[1]
    /\ q_values[0] # InitialValue

InRun == pc \in {"for_step", "env", "update", "record"}
Returned == ret.op = "train" /\ ret.outcome = "ok"
IsFirstMaximum(v, i) ==
    /\ \A j \in DOMAIN v : v[j] <= v[i]
    /\ \A j \in DOMAIN v : v[j] = v[i] => i <= j

\* the action chosen and the reward received at step s of run r, as logged
ChosenAt(r, s) == log[r + 1][s + 1][1]
RewardAt(r, s) == log[r + 1][s + 1][2]
WasOptimal(r, s) == ChosenAt(r, s) = bandits[r].best_action

C8_Indicators ==
    /\ envStatus = "ok" =>
           \A b \in DOMAIN bandits :
               IsFirstMaximum(bandits[b].q_star, bandits[b].best_action)
    /\ InRun =>
           \A s \in 0..(step - 1) : optimal_action[s] = WasOptimal(bandit_idx, s)
    /\ Training =>
           \A i \in 1..Len(optimal_action_testbed) :
               \A s \in DOMAIN optimal_action_testbed[i].val :
                   optimal_action_testbed[i].val[s]
                       = WasOptimal(optimal_action_testbed[i].key, s)
    /\ Returned =>
           \A i \in 1..Len(frames.optimal.columns) :
               \A s \in 0..(frames.optimal.nrows - 1) :
                   frames.optimal.col[i][s] = WasOptimal(frames.optimal.columns[i], s)

C8_Stationary == envStatus = "ok" => bandits' = bandits

\* C8: every recorded optimality indicator is true exactly when the action
\* chosen at that step is the run's best_action, the first index holding the
\* maximum of q_star; no operation changes q_star or best_action once the
\* testbed is constructed.
C8_OptimalIndicator == []C8_Indicators /\ [][C8_Stationary]_vars

C8_Witness ==
    /\ Returned
    /\ cfg.num_runs = 2
    /\ bandits[0].best_action = 0
    /\ bandits[1].best_action = 1
    /\ bandits[1].q_star[0] < bandits[1].q_star[1]
    /\ \E s \in 0..(frames.optimal.nrows - 1) :
           frames.optimal.col[2][s] /\ ~frames.optimal.col[1][s]

C9_Tables ==
    (Returned /\ cfg.num_runs >= 1 /\ cfg.max_steps >= 1) =>
        /\ frames.rewards.columns = [i \in 1..cfg.num_runs |-> i - 1]
        /\ frames.optimal.columns = [i \in 1..cfg.num_runs |-> i - 1]
        /\ frames.rewards.nrows = cfg.max_steps
        /\ frames.optimal.nrows = cfg.max_steps
        /\ \A i \in 1..cfg.num_runs :
               /\ DOMAIN frames.rewards.col[i] = 0..(cfg.max_steps - 1)
               /\ DOMAIN frames.optimal.col[i] = 0..(cfg.max_steps - 1)
               /\ \A s \in 0..(cfg.max_steps - 1) :
                      /\ frames.rewards.col[i][s] = RewardAt(i - 1, s)
                      /\ frames.optimal.col[i][s] = WasOptimal(i - 1, s)

C9_Called ==
    ret.op = "train" /\ ret.outcome = "running" /\ cfg.max_steps >= 1

\* C9: on a testbed of num_runs >= 1 runs with max_steps >= 1, train()
\* returns, and its two tables have one column per run in testbed order and
\* max_steps rows, row s of column r holding step s of run r.
C9_TrainReturnsTables == []C9_Tables /\ (C9_Called ~> Returned)

C9_Witness ==
    /\ Returned
    /\ cfg.num_runs = 2
    /\ cfg.max_steps = 2
    /\ frames.rewards.col[1][0] # frames.rewards.col[2][0]
    /\ frames.rewards.col[1][0] # frames.rewards.col[1][1]

\* C10: train() calls reset() once per run, before the run's first act() and
\* never between two steps of a run; at the first action selection of every
\* run all counts are 0 and all estimates are the initial value.
C10_ResetOncePerRun ==
    /\ (pc = "for_step" /\ step = 0) =>
           \A a \in Actions :
               action_counts[a] = 0 /\ q_values[a] = InitialValue
    /\ pc = "for_bandit" => resets = bandit_idx
    /\ InRun => resets = bandit_idx + 1

C10_Witness ==
    /\ pc = "for_step"
    /\ step = 0
    /\ bandit_idx = 1
    /\ Len(log[1]) = cfg.max_steps
    /\ cfg.max_steps >= 1
    /\ InitialValue = RatOfInt(5)

====
